---- MODULE Spec2Model ----
(***************************************************************************)
(* Model of the embedding cache and the incremental embedding pipeline of  *)
(* src/ticketing_intel/etl/embedder.py, as it is driven by                 *)
(* src/ticketing_intel/etl/pipeline.py.                                    *)
(*                                                                         *)
(* A vector is a sequence of integers.  The embedding service returns      *)
(* double-precision numbers; the cache keeps float32.  The conversion is   *)
(* modelled as rounding down to an even integer (idempotent and lossy, as  *)
(* the real conversion is).  A matrix is a record [rows, width].           *)
(*                                                                         *)
(* _embed_openai and _embed_voyage run the same loop around their client   *)
(* call; the model follows _embed_openai.  Every invocation constructs its *)
(* EmbeddingCache from the file, as run_pipeline_from_tickets does.        *)
(***************************************************************************)
EXTENDS Integers, Sequences, FiniteSets, TLC

\* ---------------------------------------------------------------- bounds
MaxLen == 3
MaxBatch == 2
MaxCkpt == 2
MaxRuns == 2
MaxOps == 2
MaxAddLen == 1
MaxQuery == 2

Keys == {"A", "B", "C"}
Texts == {"t1", "t2"}

\* ---------------------------------------------------------------- helpers
Range(s) == {s[n] : n \in DOMAIN s}

Min(a, b) == IF a < b THEN a ELSE b

MaxOf(S) == CHOOSE m \in S : \A n \in S : n <= m

\* Python slice s[lo:hi] (0-based, hi exclusive, clipped to the length)
Slice(s, lo, hi) == SubSeq(s, lo + 1, Min(hi, Len(s)))

\* ---------------------------------------------------------------- vectors
\* ndarray.astype(np.float32) / np.array(..., dtype=np.float32) on one row
F32(v) == [n \in DOMAIN v |-> (v[n] \div 2) * 2]

Matrix(rows, width) == [rows |-> rows, width |-> width]

\* self._vectors = None
NoVectors == Matrix(<<>>, -1)

\* np.empty((0, 0), dtype=np.float32)
EmptyMatrix == Matrix(<<>>, 0)

AsFloat32(M) == Matrix([n \in DOMAIN M.rows |-> F32(M.rows[n])], M.width)

\* the remote embedding of one text (one vector per text, a function of the text)
Embedding(t) == IF t = "t1" THEN <<3, 0>> ELSE <<1, 5>>

\* client.embeddings.create(model, input=batch): one vector per text, in order
EmbedCall(batch) == [n \in DOMAIN batch |-> Embedding(batch[n])]

\* ---------------------------------------------------------------- cache
\* an index in which the first row of a key wins
BuildIndexFirst(keys) ==
    [k \in Range(keys) |-> CHOOSE n \in DOMAIN keys :
        keys[n] = k /\ \A m \in DOMAIN keys : keys[m] = k => n <= m]

\* {k: i for i, k in enumerate(keys)}: the last row of a key wins
BuildIndex(keys) ==
    [k \in Range(keys) |-> MaxOf({n \in DOMAIN keys : keys[n] = k})]

EmptyCache == [keys |-> <<>>, vectors |-> NoVectors, index |-> BuildIndex(<<>>)]

NoFile == [st |-> "none", keys |-> <<>>, vectors |-> NoVectors]

\* a file whose zip archive was opened for writing and not closed
PartialFile == [st |-> "partial", keys |-> <<>>, vectors |-> NoVectors]

\* a save that leaves out the last record
FileOfStale(c) ==
    [st |-> "ok", keys |-> SubSeq(c.keys, 1, Len(c.keys) - 1),
     vectors |-> Matrix(SubSeq(c.vectors.rows, 1, Len(c.vectors.rows) - 1),
                        c.vectors.width)]

\* the archive np.savez writes from the cache
FileOf(c) == [st |-> "ok", keys |-> c.keys, vectors |-> c.vectors]

\* a load that leaves the index as __init__ made it
LoadStaleIndex(d) ==
    IF d.st = "ok"
    THEN [keys |-> d.keys, vectors |-> AsFloat32(d.vectors), index |-> BuildIndex(<<>>)]
    ELSE [keys |-> <<>>, vectors |-> NoVectors, index |-> BuildIndex(<<>>)]

\* EmbeddingCache._load on a readable or absent file
Load(d) ==
    IF d.st = "ok"
    THEN [keys |-> d.keys, vectors |-> AsFloat32(d.vectors), index |-> BuildIndex(d.keys)]
    ELSE EmptyCache

\* np.load raises on an archive that was never closed
LoadRaises(d) == d.st = "partial"

\* EmbeddingCache.save: nothing is written for an empty key list
SaveWrites(c) == c.keys # <<>>

\* a lookup that ignores the cache
MissingKeysAll(c, keys) == keys

\* EmbeddingCache.missing_keys
MissingKeys(c, keys) == SelectSeq(keys, LAMBDA k : k \notin DOMAIN c.index)

\* np.vstack raises ValueError when the widths differ
AddRaises(c, keys, M) ==
    /\ keys # <<>>
    /\ c.vectors # NoVectors
    /\ c.vectors.width # M.width

\* EmbeddingCache.add
Add(c, keys, M) ==
    IF keys = <<>> \/ AddRaises(c, keys, M) THEN c
    ELSE IF c.vectors = NoVectors
         THEN [keys |-> keys, vectors |-> AsFloat32(M), index |-> BuildIndex(keys)]
         ELSE [keys |-> c.keys \o keys,
               vectors |-> Matrix(c.vectors.rows \o AsFloat32(M).rows, c.vectors.width),
               index |-> BuildIndex(c.keys \o keys)]

\* EmbeddingCache.get: found keys in request order
GetFound(c, keys) == SelectSeq(keys, LAMBDA k : k \in DOMAIN c.index)

\* fancy indexing self._vectors[idxs] raises IndexError past the last row
GetRaises(c, keys) ==
    \E n \in DOMAIN GetFound(c, keys) :
        c.index[GetFound(c, keys)[n]] > Len(c.vectors.rows)

GetVectors(c, keys) ==
    LET found == GetFound(c, keys)
    IN IF found = <<>> THEN EmptyMatrix
       ELSE Matrix([n \in DOMAIN found |-> c.vectors.rows[c.index[found[n]]]],
                   c.vectors.width)

\* EmbeddingCache.__len__
CacheLen(c) == Len(c.keys)

\* ---------------------------------------------------------------- pipeline
VARIABLES
    disk,              \* the cache file .cache/embeddings.npz
    cache,             \* the EmbeddingCache object of the running process
    pc,                \* position of the process in embed_tickets
    tickets,           \* the work-set: a sequence of [key, embed_text]
    batch_size,
    checkpoint_every,
    missing,           \* embed_tickets: missing (= keys_for_checkpoint)
    texts,             \* embed_tickets: texts
    vecs,              \* _embed_openai: vecs
    i,                 \* _embed_openai: loop variable i
    last_ckpt,         \* _embed_openai: last_ckpt
    result,            \* the (keys, vectors) embed_tickets returned
    runs,              \* number of invocations so far
    sent,              \* per key, how many times its text went to the service
    sentRun,           \* keys whose text this invocation sent, in order
    startCache,        \* the cache as loaded when this invocation started
    ckptCache,         \* the cache after the last completed checkpoint
    nckpt,             \* checkpoints completed by this invocation
    prevEnd,           \* how the previous invocation ended
    prevResult,        \* what the previous invocation returned
    prevCkpt,          \* the cache after the previous invocation's last checkpoint
    hist,              \* interruptions since the first invocation
    lastAdd,           \* the last direct call of EmbeddingCache.add
    ops,               \* number of direct calls on the cache so far
    answer,            \* what the last direct call on the cache returned
    store,             \* keys of the rows of the SQLite ticket store
    index,             \* the server's _vecs, _keys, _meta
    outcome_signals,   \* the server's _outcome_signals: key -> label
    tie_order,         \* how the numpy build orders equal similarities
    resp,              \* the response to the last request to the server
    files,             \* search_index.npy, search_keys.npy, search_meta.json
    build,             \* the process running build_search_index.py
    boot,              \* position of the server process in its startup
    writers            \* concurrent pipeline processes on the one cache file

vars == <<disk, cache, pc, tickets, batch_size, checkpoint_every, missing, texts,
          vecs, i, last_ckpt, result, runs, sent, sentRun, startCache, ckptCache,
          nckpt, prevEnd, prevResult, prevCkpt, hist, lastAdd, ops, answer, store,
          index, outcome_signals, tie_order, resp,
          files, build, boot, writers>>

serverVars == <<index, outcome_signals, tie_order, resp>>

buildVars == <<files, build, boot>>

Ticket(k, t) == [key |-> k, embed_text |-> t]

KeyOrder == <<"A", "B", "C">>

\* The code compares keys and texts only for equality, so a work-set stands
\* for all its renamings: the keys of a work-set appear in the order A, B, C
\* at their first occurrence, and its first text is t1.
Canonical(tk) ==
    /\ tk # <<>> => tk[1].embed_text = "t1"
    /\ \A n \in DOMAIN tk :
          \E m \in 1..Cardinality({tk[j].key : j \in 1..(n - 1)}) + 1 :
              /\ m <= Len(KeyOrder)
              /\ tk[n].key = KeyOrder[m]

WorkSets ==
    {tk \in UNION {[1..n -> {Ticket(k, t) : k \in Keys, t \in Texts}] : n \in 0..MaxLen} :
        Canonical(tk)}

\* all_keys = [t.key for t in tickets]
AllKeys(tk) == [n \in DOMAIN tk |-> tk[n].key]

\* key_to_text = {t.key: t.embed_text for t in tickets}: the last ticket wins
KeyToText(tk) ==
    [k \in Range(AllKeys(tk)) |->
        tk[MaxOf({n \in DOMAIN tk : tk[n].key = k})].embed_text]

\* texts = [key_to_text[k] for k in missing]
TextsOf(tk, miss) == [n \in DOMAIN miss |-> KeyToText(tk)[miss[n]]]

NoResult == [keys |-> <<>>, vectors |-> NoVectors]

\* _, vectors = cache.get(all_keys); return all_keys, vectors
Return(c, keys) == [keys |-> keys, vectors |-> GetVectors(c, keys)]

\* if done - last_ckpt >= checkpoint_every
ShouldCheckpoint(done, last, every) == done - last >= every

\* a checkpoint slice that stops one key early
DeltaKeysShort(miss, last, done) == Slice(miss, last, done - 1)

\* delta_keys = keys_for_checkpoint[last_ckpt:done]
DeltaKeys(miss, last, done) == Slice(miss, last, done)

\* a checkpoint slice of the vectors that ignores the offset last_ckpt
DeltaVecsFromStart(v, last, done) ==
    AsFloat32(Matrix(Slice(v, 0, done - last), Len(Embedding("t1"))))

\* delta_vecs = np.array(vecs[last_ckpt:done], dtype=np.float32)
DeltaVecs(v, last, done) ==
    AsFloat32(Matrix(Slice(v, last, done), Len(Embedding("t1"))))

\* a reconciliation that finds nothing left to add
StillMissingNone(c, miss) == <<>>

\* still_missing = cache.missing_keys(missing)
StillMissing(c, miss) == MissingKeys(c, miss)

\* new_vecs[idxs] with idxs = [missing_map[k] for k in still_missing]
Reconciled(miss, still, v) ==
    LET missing_map == BuildIndex(miss)
        new_vecs == AsFloat32(Matrix(v, Len(Embedding("t1"))))
    IN Matrix([n \in DOMAIN still |-> new_vecs.rows[missing_map[still[n]]]],
              new_vecs.width)

NoAdd == [called |-> FALSE, invalid |-> FALSE, raised |-> FALSE, before |-> EmptyCache]

\* the server's tier labels, in the order of the TIERS tuple
TIERS == <<"Automate", "Assist", "Escalate">>

\* no index loaded: the state of a process that is not the server
NoIndex == [vecs |-> <<>>, keys |-> <<>>, meta |-> <<>>]

NoResponse ==
    [route |-> "none", status |-> 0, error |-> "", raw |-> <<>>,
     top_idx |-> <<>>, top_sims |-> <<>>, similar |-> <<>>,
     probs |-> [t \in Range(TIERS) |-> 0], tier |-> "", confidence |-> 0,
     coverage |-> 0, evidence |-> <<>>]

\* an artefact of the index build that was never written
NoArtefact == [st |-> "none", data |-> <<>>]

NoFiles == [vecs |-> NoArtefact, keys |-> NoArtefact, meta |-> NoArtefact]

NoBuild ==
    [pc |-> "idle", n |-> 0, all_keys |-> <<>>, db_meta |-> {}, keys |-> <<>>,
     vecs_norm |-> <<>>, meta |-> <<>>, outputs |-> {}]

Writers == {1, 2}

NoWriter ==
    [pc |-> "idle", tickets |-> <<>>, every |-> 1, cache |-> EmptyCache,
     missing |-> <<>>, last |-> 0, flushed |-> {}]

NoWriters == [w \in Writers |-> NoWriter]

\* add and save return None
NoAnswer ==
    [op |-> "none", keys |-> <<>>, out |-> <<>>, vectors |-> NoVectors, raised |-> FALSE]

Running == {"embed", "ckpt", "ckpt_saving", "final", "final_saving"}
Ended == {"idle", "done", "failed", "crashed", "loaderr"}

InitEtl ==
    /\ disk = NoFile
    /\ cache = EmptyCache
    /\ pc = "idle"
    /\ tickets \in WorkSets
    /\ batch_size = 1
    /\ checkpoint_every = 1
    /\ missing = <<>>
    /\ texts = <<>>
    /\ vecs = <<>>
    /\ i = 0
    /\ last_ckpt = 0
    /\ result = NoResult
    /\ runs = 0
    /\ sent = [k \in Keys |-> 0]
    /\ sentRun = <<>>
    /\ startCache = EmptyCache
    /\ ckptCache = EmptyCache
    /\ nckpt = 0
    /\ prevEnd = "idle"
    /\ prevResult = NoResult
    /\ prevCkpt = EmptyCache
    /\ hist = [interrupted |-> FALSE, afterCkpts |-> 0]
    /\ lastAdd = NoAdd
    /\ ops = 0
    /\ answer = NoAnswer
    /\ store = {}

Init ==
    /\ InitEtl
    /\ index = NoIndex
    /\ outcome_signals = [k \in {} |-> ""]
    /\ tie_order = "first"
    /\ resp = NoResponse
    /\ files = NoFiles
    /\ build = NoBuild
    /\ boot = "down"
    /\ writers = NoWriters

\* an upsert that is put off until after the embedding
UpsertLater(st, tk) == st

\* store.upsert(tickets): INSERT OR REPLACE one row per key, then commit
Upsert(st, tk) == st \cup Range(AllKeys(tk))

\* run_pipeline_from_tickets: store.upsert, EmbeddingCache(path), then
\* embed_tickets up to the first call of the embedding service
StartRun(bs, ce) ==
    /\ pc \in Ended
    /\ runs < MaxRuns
    /\ runs' = runs + 1
    /\ prevEnd' = pc
    /\ prevResult' = result
    /\ prevCkpt' = ckptCache
    /\ batch_size' = bs
    /\ checkpoint_every' = ce
    /\ sentRun' = <<>>
    /\ nckpt' = 0
    /\ vecs' = <<>>
    /\ i' = 0
    /\ last_ckpt' = 0
    /\ store' = Upsert(store, tickets)
    /\ UNCHANGED <<disk, tickets, sent, hist, lastAdd, ops, answer, serverVars, buildVars, writers>>
    /\ IF LoadRaises(disk)
       THEN /\ pc' = "loaderr"
            /\ cache' = EmptyCache
            /\ startCache' = EmptyCache
            /\ ckptCache' = EmptyCache
            /\ missing' = <<>>
            /\ texts' = <<>>
            /\ result' = NoResult
       ELSE LET c == Load(disk)
                miss == MissingKeys(c, AllKeys(tickets))
            IN /\ cache' = c
               /\ startCache' = c
               /\ ckptCache' = c
               /\ missing' = miss
               /\ texts' = TextsOf(tickets, miss)
               /\ IF miss = <<>>
                  THEN /\ pc' = "done"
                       /\ result' = Return(c, AllKeys(tickets))
                  ELSE /\ pc' = "embed"
                       /\ result' = NoResult

\* one call of the service: batch = texts[i : i + batch_size]; vecs.extend(...)
EmbedBatch ==
    /\ pc = "embed"
    /\ LET batch == Slice(texts, i, i + batch_size)
           bkeys == Slice(missing, i, i + batch_size)
       IN /\ vecs' = vecs \o EmbedCall(batch)
          /\ sentRun' = sentRun \o bkeys
          /\ sent' = [k \in Keys |->
                        sent[k] + Cardinality({n \in DOMAIN bkeys : bkeys[n] = k})]
    /\ pc' = "ckpt"
    /\ UNCHANGED <<disk, cache, tickets, batch_size, checkpoint_every, missing, texts,
                   i, last_ckpt, result, runs, startCache, ckptCache, nckpt,
                   prevEnd, prevResult, prevCkpt, hist, lastAdd, ops, answer, store, serverVars, buildVars, writers>>

\* the call of the service raises (transient error, timeout); the exception
\* leaves embed_tickets and run_pipeline_from_tickets
EmbedFail ==
    /\ pc = "embed"
    /\ pc' = "failed"
    /\ hist' = [interrupted |-> TRUE, afterCkpts |-> nckpt]
    /\ UNCHANGED <<disk, cache, tickets, batch_size, checkpoint_every, missing, texts,
                   vecs, i, last_ckpt, result, runs, sent, sentRun, startCache,
                   ckptCache, nckpt, prevEnd, prevResult, prevCkpt, lastAdd, ops, answer, store, serverVars, buildVars, writers>>

\* the next value of range(0, total, batch_size), or the end of the loop
NextBatch ==
    /\ i' = i + batch_size
    /\ pc' = IF i + batch_size < Len(texts) THEN "embed" ELSE "final"

\* after the sleep: the checkpoint test; cache.add and the start of cache.save
CheckpointStep ==
    /\ pc = "ckpt"
    /\ IF ShouldCheckpoint(Len(vecs), last_ckpt, checkpoint_every)
       THEN /\ cache' = Add(cache, DeltaKeys(missing, last_ckpt, Len(vecs)),
                                   DeltaVecs(vecs, last_ckpt, Len(vecs)))
            /\ disk' = IF SaveWrites(cache') THEN PartialFile ELSE disk
            /\ pc' = "ckpt_saving"
            /\ i' = i
       ELSE /\ NextBatch
            /\ UNCHANGED <<disk, cache>>
    /\ UNCHANGED <<tickets, batch_size, checkpoint_every, missing, texts, vecs,
                   last_ckpt, result, runs, sent, sentRun, startCache, ckptCache,
                   nckpt, prevEnd, prevResult, prevCkpt, hist, lastAdd, ops, answer, store, serverVars, buildVars, writers>>

\* a checkpoint that does not advance last_ckpt
CheckpointSavedStale ==
    /\ pc = "ckpt_saving"
    /\ disk' = IF SaveWrites(cache) THEN FileOf(cache) ELSE disk
    /\ last_ckpt' = last_ckpt
    /\ ckptCache' = cache
    /\ nckpt' = nckpt + 1
    /\ NextBatch
    /\ UNCHANGED <<cache, tickets, batch_size, checkpoint_every, missing, texts, vecs,
                   result, runs, sent, sentRun, startCache, prevEnd, prevResult, prevCkpt, hist, lastAdd, ops, answer, store, serverVars, buildVars, writers>>

\* np.savez returns; last_ckpt = done
CheckpointSaved ==
    /\ pc = "ckpt_saving"
    /\ disk' = IF SaveWrites(cache) THEN FileOf(cache) ELSE disk
    /\ last_ckpt' = Len(vecs)
    /\ ckptCache' = cache
    /\ nckpt' = nckpt + 1
    /\ NextBatch
    /\ UNCHANGED <<cache, tickets, batch_size, checkpoint_every, missing, texts, vecs,
                   result, runs, sent, sentRun, startCache, prevEnd, prevResult, prevCkpt, hist, lastAdd, ops, answer, store, serverVars, buildVars, writers>>

\* after the loop: add what no checkpoint saved, start the last save, or return
Reconcile ==
    /\ pc = "final"
    /\ LET still == StillMissing(cache, missing)
       IN IF still # <<>>
          THEN /\ cache' = Add(cache, still, Reconciled(missing, still, vecs))
               /\ disk' = IF SaveWrites(cache') THEN PartialFile ELSE disk
               /\ pc' = "final_saving"
               /\ result' = result
          ELSE /\ pc' = "done"
               /\ result' = Return(cache, AllKeys(tickets))
               /\ UNCHANGED <<disk, cache>>
    /\ UNCHANGED <<tickets, batch_size, checkpoint_every, missing, texts, vecs, i,
                   last_ckpt, runs, sent, sentRun, startCache, ckptCache, nckpt,
                   prevEnd, prevResult, prevCkpt, hist, lastAdd, ops, answer, store, serverVars, buildVars, writers>>

\* the last np.savez returns; embed_tickets returns
FinalSaved ==
    /\ pc = "final_saving"
    /\ disk' = IF SaveWrites(cache) THEN FileOf(cache) ELSE disk
    /\ pc' = "done"
    /\ result' = Return(cache, AllKeys(tickets))
    /\ UNCHANGED <<cache, tickets, batch_size, checkpoint_every, missing, texts, vecs,
                   i, last_ckpt, runs, sent, sentRun, startCache, ckptCache, nckpt,
                   prevEnd, prevResult, prevCkpt, hist, lastAdd, ops, answer, store, serverVars, buildVars, writers>>

\* the process is killed, or np.savez raises (disk full): what the open
\* archive holds stays on disk, the objects of the process are gone
Crash ==
    /\ pc \in Running
    /\ pc' = "crashed"
    /\ hist' = [interrupted |-> TRUE, afterCkpts |-> nckpt]
    /\ UNCHANGED <<disk, cache, tickets, batch_size, checkpoint_every, missing, texts,
                   vecs, i, last_ckpt, result, runs, sent, sentRun, startCache,
                   ckptCache, nckpt, prevEnd, prevResult, prevCkpt, lastAdd, ops, answer, store, serverVars, buildVars, writers>>

Next ==
    \/ \E bs \in 1..MaxBatch, ce \in 1..MaxCkpt : StartRun(bs, ce)
    \/ EmbedBatch
    \/ EmbedFail
    \/ CheckpointStep
    \/ CheckpointSaved
    \/ Reconcile
    \/ FinalSaved
    \/ Crash

Spec == Init /\ [][Next]_vars

\* the whole of one invocation that nothing interrupts: the final cache
RECURSIVE RunLoop(_, _, _, _, _, _, _, _)
RunLoop(c, miss, txt, v, idx, last, bs, ce) ==
    IF idx >= Len(txt)
    THEN LET still == StillMissing(c, miss)
         IN Add(c, still, Reconciled(miss, still, v))
    ELSE LET v2 == v \o EmbedCall(Slice(txt, idx, idx + bs))
             flush == ShouldCheckpoint(Len(v2), last, ce)
         IN RunLoop(IF flush
                    THEN Add(c, DeltaKeys(miss, last, Len(v2)), DeltaVecs(v2, last, Len(v2)))
                    ELSE c,
                    miss, txt, v2, idx + bs, IF flush THEN Len(v2) ELSE last, bs, ce)

UninterruptedRun(c, tk, bs, ce) ==
    LET miss == MissingKeys(c, AllKeys(tk))
    IN IF miss = <<>> THEN c
       ELSE RunLoop(c, miss, TextsOf(tk, miss), <<>>, 0, 0, bs, ce)

\* ---------------------------------------------------------------- cache API
\* direct use of an EmbeddingCache object by a caller, outside a pipeline run
AddKeys == UNION {[1..n -> {"A", "B"}] : n \in 0..MaxAddLen}

RowsOfWidth(w) == IF w = 1 THEN {<<1>>, <<2>>} ELSE {<<3, 0>>, <<1, 5>>}

AddMatrices ==
    UNION {{Matrix(r, w) : r \in UNION {[1..n -> RowsOfWidth(w)] : n \in 0..MaxAddLen}} :
           w \in 1..2}

InitCache ==
    /\ Init
    /\ tickets = <<>>

\* what the specification of add rejects
AddInvalid(c, keys, M) ==
    \/ Len(M.rows) # Len(keys)
    \/ c.vectors # NoVectors /\ c.vectors.width # M.width
    \/ \E n \in DOMAIN keys : keys[n] \in DOMAIN c.index

pipeVars == <<pc, tickets, batch_size, checkpoint_every, missing, texts, vecs, i,
              last_ckpt, result, runs, sent, sentRun, startCache, ckptCache, nckpt,
              prevEnd, prevResult, prevCkpt, hist, store>>

\* cache.add(keys, vectors)
CacheAdd(keys, M) ==
    /\ ops < MaxOps
    /\ ops' = ops + 1
    /\ cache' = Add(cache, keys, M)
    /\ lastAdd' = [called |-> TRUE, invalid |-> AddInvalid(cache, keys, M),
                   raised |-> AddRaises(cache, keys, M), before |-> cache]
    /\ answer' = NoAnswer
    /\ UNCHANGED <<disk, pipeVars, serverVars, buildVars, writers>>

\* cache.save()
CacheSave ==
    /\ disk' = IF SaveWrites(cache) THEN FileOf(cache) ELSE disk
    /\ answer' = [NoAnswer EXCEPT !.op = "save"]
    /\ UNCHANGED <<cache, lastAdd, ops, pipeVars, serverVars, buildVars, writers>>

\* cache = EmbeddingCache(path)
CacheLoad ==
    /\ ~LoadRaises(disk)
    /\ cache' = Load(disk)
    /\ answer' = [NoAnswer EXCEPT !.op = "load"]
    /\ UNCHANGED <<disk, lastAdd, ops, pipeVars, serverVars, buildVars, writers>>

NextCache ==
    \/ \E keys \in AddKeys, M \in AddMatrices : CacheAdd(keys, M)
    \/ CacheSave
    \/ CacheLoad

SpecCache == InitCache /\ [][NextCache]_vars

\* ---------------------------------------------------------------- cache queries
\* the cache used as embed_tickets uses it: add is called with one row per key
QueryKeys == UNION {[1..n -> {"A", "B"}] : n \in 0..MaxQuery}

ApiMatrices == {M \in AddMatrices : M.width = 1}

CacheAddRows(keys, M) ==
    /\ Len(M.rows) = Len(keys)
    /\ Len(cache.keys) + Len(keys) <= MaxLen
    /\ ops < MaxOps
    /\ ops' = ops + 1
    /\ cache' = Add(cache, keys, M)
    /\ answer' = NoAnswer
    /\ UNCHANGED <<disk, lastAdd, pipeVars, serverVars, buildVars, writers>>

\* missing_keys answering in reverse order
CacheMissingReversed(keys) ==
    /\ answer' = [op |-> "missing", keys |-> keys,
                  out |-> [n \in 1..Len(MissingKeys(cache, keys)) |->
                      MissingKeys(cache, keys)[Len(MissingKeys(cache, keys)) + 1 - n]],
                  vectors |-> NoVectors, raised |-> FALSE]
    /\ UNCHANGED <<disk, cache, lastAdd, ops, pipeVars, serverVars, buildVars, writers>>

\* cache.missing_keys(keys)
CacheMissing(keys) ==
    /\ answer' = [op |-> "missing", keys |-> keys, out |-> MissingKeys(cache, keys),
                  vectors |-> NoVectors, raised |-> FALSE]
    /\ UNCHANGED <<disk, cache, lastAdd, ops, pipeVars, serverVars, buildVars, writers>>

\* cache.get(keys)
CacheGet(keys) ==
    /\ answer' = IF GetRaises(cache, keys)
                 THEN [op |-> "get", keys |-> keys, out |-> <<>>,
                       vectors |-> NoVectors, raised |-> TRUE]
                 ELSE [op |-> "get", keys |-> keys, out |-> GetFound(cache, keys),
                       vectors |-> GetVectors(cache, keys), raised |-> FALSE]
    /\ UNCHANGED <<disk, cache, lastAdd, ops, pipeVars, serverVars, buildVars, writers>>

NextApi ==
    \/ \E keys \in AddKeys, M \in ApiMatrices : CacheAddRows(keys, M)
    \/ CacheSave
    \/ CacheLoad
    \/ \E keys \in QueryKeys : CacheMissing(keys)
    \/ \E keys \in QueryKeys : CacheGet(keys)

SpecApi == InitCache /\ [][NextApi]_vars

TypeOK ==
    /\ pc \in Running \cup Ended
    /\ disk.st \in {"none", "ok", "partial"}
    /\ runs \in 0..MaxRuns

\* ---------------------------------------------------------------- properties
HasKey(c, k) == k \in DOMAIN c.index

VectorOf(c, k) == c.vectors.rows[c.index[k]]

Requested == Range(AllKeys(tickets))

\* what the file holds: no record when there is no file
DiskHolds(c) == IF c.keys = <<>> THEN disk = NoFile ELSE disk = FileOf(c)

\* C1: once embed_tickets has returned normally for the work-set, the next
\* invocation on the same work-set and cache file sends nothing to the
\* embedding service and returns the same keys and vectors.
C1_Idempotence ==
    prevEnd = "done" =>
        /\ pc = "done"
        /\ sentRun = <<>>
        /\ result = prevResult

C1_Witness ==
    /\ prevEnd = "done"
    /\ pc = "done"
    /\ Len(tickets) >= 2
    /\ \E k \in Keys : sent[k] > 0
    /\ result.vectors.rows # <<>>

\* C5: when embed_tickets returns, every requested key has a vector in the
\* cache object and in the cache file, and the returned matrix has one row per
\* returned key, row n being the cached vector of keys[n].
C5_NoSilentDrops ==
    pc = "done" =>
        /\ result.keys = AllKeys(tickets)
        /\ \A k \in Requested :
              /\ HasKey(cache, k)
              /\ disk.st = "ok"
              /\ HasKey(Load(disk), k)
        /\ Len(result.vectors.rows) = Len(result.keys)
        /\ \A n \in DOMAIN result.keys :
              /\ result.vectors.rows[n] = VectorOf(cache, result.keys[n])
              /\ result.vectors.rows[n] = VectorOf(Load(disk), result.keys[n])

C5_Witness ==
    /\ pc = "done"
    /\ Len(tickets) >= 2
    /\ sentRun # <<>>
    /\ nckpt >= 1
    /\ Len(cache.keys) > Len(ckptCache.keys)

\* C6: an invocation that follows a failed call of the embedding service starts
\* from the cache of the failed invocation's last checkpoint, sends only keys
\* that are not in it, and when it returns it has sent exactly the requested
\* keys that were not checkpointed and every requested key is in the cache.
C6_IdempotentResume ==
    prevEnd = "failed" =>
        /\ pc # "loaderr"
        /\ startCache = prevCkpt
        /\ Range(sentRun) \subseteq Requested \ Range(prevCkpt.keys)
        /\ pc = "done" =>
              /\ Range(sentRun) = Requested \ Range(prevCkpt.keys)
              /\ \A k \in Requested : HasKey(cache, k)

C6_Witness ==
    /\ prevEnd = "failed"
    /\ pc = "done"
    /\ prevCkpt.keys # <<>>
    /\ sentRun # <<>>
    /\ Requested \ Range(prevCkpt.keys) # {}

\* C7: when a call of the embedding service raises, the cache object and the
\* cache file hold exactly the records of the last completed checkpoint: the
\* records loaded at the start followed by missing[0:last_ckpt].
C7_FailureKeepsCheckpoint ==
    pc = "failed" =>
        /\ cache = ckptCache
        /\ DiskHolds(ckptCache)
        /\ cache.keys = startCache.keys \o Slice(missing, 0, last_ckpt)
        /\ Len(cache.vectors.rows) = Len(cache.keys)

C7_Witness ==
    /\ pc = "failed"
    /\ Len(vecs) > last_ckpt
    /\ ckptCache.keys # <<>>

\* C2: the text of a key goes to the embedding service at most once, over all
\* invocations on the cache file.
C2_AtMostOnce == \A k \in Keys : sent[k] <= 1

\* C3: an invocation that returns after earlier invocations on the same
\* work-set were interrupted leaves the cache that one uninterrupted invocation
\* from the first cache leaves: same keys, same order, same vectors.
C3_CrashSafety ==
    (pc = "done" /\ hist.interrupted) =>
        LET u == UninterruptedRun(EmptyCache, tickets, batch_size, checkpoint_every)
        IN /\ cache.keys = u.keys
           /\ cache.vectors = u.vectors

\* C4: the cache file is at every instant a complete archive: the state of
\* the last completed save, never a partially written or unreadable file.
C4_AtomicSave ==
    /\ disk.st # "partial"
    /\ \A k \in Range(ckptCache.keys) : HasKey(Load(disk), k)

\* C8: a key occurs at most once among the records of the cache, so the number
\* of keys, of vector rows and of distinct keys are equal.
C8_KeyUniqueness ==
    /\ CacheLen(cache) = Cardinality(Range(cache.keys))
    /\ CacheLen(cache) = Len(cache.vectors.rows)

\* C9: a call of add with a wrong row count, a wrong width or a key that is
\* already in the cache raises and leaves the cache as it was.
C9_AddValidates ==
    (lastAdd.called /\ lastAdd.invalid) =>
        /\ lastAdd.raised
        /\ cache = lastAdd.before

\* items this invocation has embedded whose record is not in the cache file
Unpersisted ==
    IF disk.st = "ok"
    THEN Cardinality({n \in DOMAIN vecs : missing[n] \notin Range(disk.keys)})
    ELSE Len(vecs)

\* C10: at every point of an invocation fewer than checkpoint_every embedded
\* items are missing from the cache file.
C10_BoundedLoss == pc \in Running => Unpersisted < checkpoint_every

\* ---------------------------------------------------------------- cache API properties
\* the n-th smallest element of a set of positions
Nth(S, n) == CHOOSE p \in S : Cardinality({q \in S : q <= p}) = n

\* the elements of s at the positions S, in the order of s
SubseqAt(s, S) == [n \in 1..Cardinality(S) |-> s[Nth(S, n)]]

\* the record of a key: the row of its last occurrence in the key list
StoredRow(c, k) == c.vectors.rows[MaxOf({n \in DOMAIN c.keys : c.keys[n] = k})]

SameAnswers(c, l) ==
    \A ks \in QueryKeys :
        /\ MissingKeys(l, ks) = MissingKeys(c, ks)
        /\ GetFound(l, ks) = GetFound(c, ks)
        /\ GetRaises(l, ks) = GetRaises(c, ks)
        /\ ~GetRaises(c, ks) => GetVectors(l, ks) = GetVectors(c, ks)

\* C11: save() followed by EmbeddingCache(path) gives back the key list in
\* the same order, the same vectors, and the same answers of missing_keys
\* and get.
C11_RoundTrip ==
    answer.op = "save" =>
        /\ Load(disk).keys = cache.keys
        /\ Load(disk).vectors = cache.vectors
        /\ SameAnswers(cache, Load(disk))

C11_Witness ==
    /\ answer.op = "save"
    /\ disk.st = "ok"
    /\ Len(cache.keys) >= 2
    /\ cache.vectors.rows # <<>>

\* C12: missing_keys(keys) returns the elements of keys that are not in the
\* cache, in input order, and leaves the cache and the file as they were.
C12_MissingKeys ==
    /\ [](answer.op = "missing" =>
            answer.out = SubseqAt(answer.keys,
                {n \in DOMAIN answer.keys : answer.keys[n] \notin Range(cache.keys)}))
    /\ [][(\E ks \in QueryKeys : CacheMissing(ks)) => UNCHANGED <<cache, disk>>]_vars

C12_Witness ==
    /\ answer.op = "missing"
    /\ cache.keys = <<"A">>
    /\ answer.keys = <<"A", "B">>
    /\ answer.out = <<"B">>

C14_LoadChecks ==
    answer.op = "load" =>
        /\ disk.st = "none" =>
              /\ cache = EmptyCache
              /\ \A ks \in QueryKeys : MissingKeys(cache, ks) = ks
        /\ disk.st = "ok" => Len(cache.vectors.rows) = Len(cache.keys)

\* the keys a reader finds in the file
PersistedKeys(d) == IF d.st = "ok" THEN Range(d.keys) ELSE {}

\* C15: the set of keys in the file and in the cache object only grows, and
\* the vector of a persisted key never changes.
C15_AppendOnly ==
    [][/\ PersistedKeys(disk) \subseteq PersistedKeys(disk')
       /\ \A k \in PersistedKeys(disk) :
             VectorOf(Load(disk'), k) = VectorOf(Load(disk), k)
       /\ runs' = runs =>
             /\ Range(cache.keys) \subseteq Range(cache'.keys)
             /\ \A k \in Range(cache.keys) : VectorOf(cache', k) = VectorOf(cache, k)]_vars

\* ---------------------------------------------------------------- query server
TOP_SIMILAR == 20
TOP_DISPLAY == 5
TOP_SCORE == 20

\* score weighs top_idx[:10]
ScoreSlice == 10

\* round(x, 3)
RoundDigits == 3

MaxRows == 21

\* Vectors have two coordinates counted in fifths, so that a vector of
\* length 1 is a pair of integers whose squares sum to 25; a dot product of
\* two of them is a similarity counted in twenty-fifths.
Dot(u, v) == u[1] * v[1] + u[2] * v[2]

\* np.linalg.norm
Norm(v) == CHOOSE r \in 0..Dot(v, v) : r * r = Dot(v, v)

\* what the embedding service may return for a ticket text
RawEmbeddings == {<<0, 0>>, <<5, 0>>, <<6, 8>>, <<0, -10>>}

\* _embed: the vector is divided by its norm only when the norm is positive
Embed(raw) ==
    IF Norm(raw) > 0
    THEN <<(raw[1] * 5) \div Norm(raw), (raw[2] * 5) \div Norm(raw)>>
    ELSE raw

\* sims = _vecs @ vec
Sims(vec) == [r \in 1..Len(index.vecs) |-> Dot(index.vecs[r], vec)]

\* np.argpartition(sims, -n) raises ValueError when -n is out of bounds
TopRaises(sims, n) == n > Len(sims)

\* Row a comes out before row b. np.argpartition and np.argsort (quicksort)
\* are not stable: among equal similarities the order is that of the build,
\* here either the lower or the higher row first.
Before(sims, a, b) ==
    \/ sims[a] > sims[b]
    \/ /\ sims[a] = sims[b]
       /\ IF tie_order = "first" THEN a < b ELSE a > b

\* all rows, best first
Ranked(sims) ==
    [p \in 1..Len(sims) |->
        CHOOSE a \in 1..Len(sims) :
            Cardinality({b \in 1..Len(sims) : Before(sims, b, a)}) = p - 1]

\* _top_similar: idx; the similarities it returns are sims[idx]
TopSimilar(sims, n) == SubSeq(Ranked(sims), 1, n)

SimsAt(sims, idx) == [p \in 1..Len(idx) |-> sims[idx[p]]]

\* round(num / den, RoundDigits), in units of 10^-RoundDigits: round half even
Round3(num, den) ==
    LET a == num * (10 ^ RoundDigits)
        q == a \div den
        r == a % den
    IN  IF 2 * r < den THEN q
        ELSE IF 2 * r > den THEN q + 1
        ELSE IF q % 2 = 0 THEN q ELSE q + 1

\* the neighbours score looks at: zip(top_idx[:10], top_sims[:10])
Considered(top_idx) == SubSeq(top_idx, 1, Min(ScoreSlice, Len(top_idx)))

\* a loop that ends at the first neighbour without a signal
EvidenceBreak(top_idx) ==
    SubSeq(Considered(top_idx), 1,
           Cardinality({p \in DOMAIN Considered(top_idx) :
               \A q \in 1..p :
                   index.meta[Considered(top_idx)[q]].key \in DOMAIN outcome_signals}))

\* sig = _outcome_signals.get(key); if sig is None: continue
Evidence(top_idx) ==
    SelectSeq(Considered(top_idx),
              LAMBDA r : index.meta[r].key \in DOMAIN outcome_signals)

\* w = max(0.0, float(sim))
Weight(sim) == IF sim > 0 THEN sim ELSE 0

RECURSIVE Weighted(_, _, _)
\* weighted[t] after the loop over the evidence rows ev
Weighted(sims, ev, t) ==
    IF ev = <<>> THEN 0
    ELSE (IF outcome_signals[index.meta[Head(ev)].key] = t
          THEN Weight(sims[Head(ev)]) ELSE 0)
         + Weighted(sims, Tail(ev), t)

TotalWeight(sims, ev) ==
    Weighted(sims, ev, TIERS[1]) + Weighted(sims, ev, TIERS[2])
        + Weighted(sims, ev, TIERS[3])

\* probs = {t: round(1/3, 3) for t in TIERS}
Uniform == [t \in Range(TIERS) |-> Round3(1, 3)]

\* probs = {t: round(weighted[t] / total_weight, 3) for t in TIERS}
Rounded(sims, ev) ==
    [t \in Range(TIERS) |-> Round3(Weighted(sims, ev, t), TotalWeight(sims, ev))]

SumProbs(p) == p[TIERS[1]] + p[TIERS[2]] + p[TIERS[3]]

\* s = sum(probs.values()); if s > 0: probs = {t: round(probs[t] / s, 3)}
Renormalised(p) ==
    IF SumProbs(p) > 0
    THEN [t \in Range(TIERS) |-> Round3(p[t], SumProbs(p))]
    ELSE p

\* min in place of max
ArgMin(p) ==
    TIERS[CHOOSE n \in DOMAIN TIERS :
        /\ \A m \in DOMAIN TIERS : p[TIERS[m]] >= p[TIERS[n]]
        /\ \A m \in 1..(n - 1) : p[TIERS[m]] > p[TIERS[n]]]

\* max(probs, key=probs.__getitem__): the first maximal tier in TIERS order
ArgMax(p) ==
    TIERS[CHOOSE n \in DOMAIN TIERS :
        /\ \A m \in DOMAIN TIERS : p[TIERS[m]] <= p[TIERS[n]]
        /\ \A m \in 1..(n - 1) : p[TIERS[m]] < p[TIERS[n]]]

\* an exception that leaves the route: Flask answers 500
ServerError(route, raw, error) ==
    [NoResponse EXCEPT !.route = route, !.status = 500, !.raw = raw, !.error = error]

\* the body of score after the embedding service answered raw
ScoreResponse(raw) ==
    LET sims == Sims(Embed(raw))
        top_idx == TopSimilar(sims, TOP_SCORE)
        ev == Evidence(top_idx)
        probs == IF TotalWeight(sims, ev) = 0 THEN Uniform
                 ELSE Renormalised(Rounded(sims, ev))
        tier == IF TotalWeight(sims, ev) = 0 THEN "Assist" ELSE ArgMax(probs)
    IN  IF TopRaises(sims, TOP_SCORE) THEN ServerError("score", raw, "ValueError")
        ELSE [route |-> "score", status |-> 200, error |-> "", raw |-> raw,
              top_idx |-> top_idx, top_sims |-> SimsAt(sims, top_idx),
              similar |-> <<>>, probs |-> probs, tier |-> tier,
              confidence |-> IF TotalWeight(sims, ev) = 0 THEN 0 ELSE probs[tier],
              coverage |-> Len(ev), evidence |-> ev]

\* the body of analyze after the embedding service answered raw
AnalyzeResponse(raw) ==
    LET sims == Sims(Embed(raw))
        top_idx == TopSimilar(sims, TOP_SIMILAR)
    IN  IF TopRaises(sims, TOP_SIMILAR) THEN ServerError("analyze", raw, "ValueError")
        ELSE [NoResponse EXCEPT !.route = "analyze", !.status = 200, !.raw = raw,
                                !.top_idx = top_idx,
                                !.top_sims = SimsAt(sims, top_idx),
                                !.similar = SubSeq(top_idx, 1, TOP_DISPLAY)]

Routes == {"analyze", "score"}

\* ---------------------------------------------------------------- the loaded index
KeyLayouts == {"ascending", "descending"}

\* Keys are numbered by their place in lexicographic order. The index keeps
\* the keys in the order of the cache file, which is the order of insertion.
KeyAt(layout, n, r) == IF layout = "ascending" THEN r ELSE n + 1 - r

\* rows of length 1, repeated in a cycle
VecCycles ==
    { <<<<5, 0>>>>,
      <<<<5, 0>>, <<3, 4>>, <<0, 5>>, <<-5, 0>>>>,
      <<<<3, 4>>, <<4, 3>>>> }

\* what build_search_index.py wrote and the server loaded at startup
BuiltIndex(n, layout, cyc) ==
    [vecs |-> [r \in 1..n |-> cyc[((r - 1) % Len(cyc)) + 1]],
     keys |-> [r \in 1..n |-> KeyAt(layout, n, r)],
     meta |-> [r \in 1..n |-> [key |-> KeyAt(layout, n, r)]]]

\* outcome_signals.json: absent, a label for every key and for one key that
\* is not indexed, or labels for a few keys
SignalTables(n) ==
    { [k \in {} |-> ""],
      [k \in 0..n |-> TIERS[(k % 3) + 1]],
      [k \in 1..(ScoreSlice - 1) |-> TIERS[(k % 3) + 1]] }

etlVars == <<disk, cache, lastAdd, ops, answer, pipeVars>>

InitServe ==
    /\ InitEtl
    /\ tickets = <<>>
    /\ \E n \in (TOP_SCORE - 1)..MaxRows, layout \in KeyLayouts, cyc \in VecCycles :
          /\ index = BuiltIndex(n, layout, cyc)
          /\ outcome_signals \in SignalTables(n)
    /\ tie_order \in {"first", "last"}
    /\ resp = NoResponse
    /\ files = NoFiles
    /\ build = NoBuild
    /\ boot = "serving"
    /\ writers = NoWriters

\* a score that keeps its evidence list between requests
ScoreStateful(raw) ==
    /\ resp' = [ScoreResponse(raw) EXCEPT
                    !.evidence = IF Len(resp.evidence) < ScoreSlice
                                 THEN resp.evidence \o @ ELSE @]
    /\ UNCHANGED <<index, outcome_signals, tie_order, etlVars, buildVars, writers>>

\* POST /api/score
Score(raw) ==
    /\ resp' = ScoreResponse(raw)
    /\ UNCHANGED <<index, outcome_signals, tie_order, etlVars, buildVars, writers>>

\* POST /api/analyze
Analyze(raw) ==
    /\ resp' = AnalyzeResponse(raw)
    /\ UNCHANGED <<index, outcome_signals, tie_order, etlVars, buildVars, writers>>

\* a request without text
NoText(route) ==
    /\ resp' = [NoResponse EXCEPT !.route = route, !.status = 400,
                                  !.error = "No ticket text provided"]
    /\ UNCHANGED <<index, outcome_signals, tie_order, etlVars, buildVars, writers>>

\* the embedding service raises
EmbeddingFailed(route) ==
    /\ resp' = ServerError(route, <<>>, "Embedding failed")
    /\ UNCHANGED <<index, outcome_signals, tie_order, etlVars, buildVars, writers>>

NextServe ==
    \/ \E raw \in RawEmbeddings : Score(raw)
    \/ \E raw \in RawEmbeddings : Analyze(raw)
    \/ \E route \in Routes : NoText(route)
    \/ \E route \in Routes : EmbeddingFailed(route)

SpecServe == InitServe /\ [][NextServe]_vars

\* ---------------------------------------------------------------- server properties
\* a request that got as far as _top_similar
Searched == resp.route \in Routes /\ resp.raw # <<>>

\* the similarities of the answered request
RespSims == Sims(Embed(resp.raw))

\* row a ranks before row b in the specified order: larger similarity first,
\* equal similarities by key ascending
RanksBefore(sims, a, b) ==
    \/ sims[a] > sims[b]
    \/ sims[a] = sims[b] /\ index.keys[a] < index.keys[b]

\* C16: _top_similar returns the n rows of largest similarity, ordered by
\* similarity descending, rows of equal similarity selected and ordered by
\* key ascending.
C16_RankingOrder ==
    (Searched /\ resp.status = 200) =>
        /\ \A p \in 1..(Len(resp.top_idx) - 1) :
              RanksBefore(RespSims, resp.top_idx[p], resp.top_idx[p + 1])
        /\ \A r \in DOMAIN index.keys \ Range(resp.top_idx) :
              \A p \in DOMAIN resp.top_idx : RanksBefore(RespSims, resp.top_idx[p], r)

\* C17: when the index has fewer rows than the neighbour count, the request
\* is answered with all rows ranked, not with an error.
C17_AllWhenFewer ==
    (Searched /\ Len(index.keys) < TOP_SCORE) =>
        /\ resp.status = 200
        /\ Len(resp.top_idx) = Len(index.keys)

\* C18: a query vector of norm zero is rejected: no ranking and no score is
\* produced from it.
C18_ZeroQueryRejected ==
    (Searched /\ Norm(resp.raw) = 0) =>
        /\ resp.status # 200
        /\ resp.top_idx = <<>>

\* C19: when a considered neighbour has a known label, the probabilities
\* returned by score, rounded to three decimals and renormalised, sum to
\* exactly 1.
C19_Conservation ==
    (resp.route = "score" /\ resp.status = 200 /\ resp.coverage > 0) =>
        SumProbs(resp.probs) = 10 ^ RoundDigits

\* the labelled rows among the considered neighbours of the answered request,
\* the neighbours being all rows when the index has fewer than TOP_SCORE
LabelledNeighbours ==
    Evidence(TopSimilar(RespSims, Min(TOP_SCORE, Len(index.keys))))

\* C20: when no considered neighbour has both a label and a positive
\* similarity, score answers without an error with a uniform distribution
\* and confidence 0, and with coverage 0 when no considered neighbour has a
\* label.
C20_Fallback ==
    (Searched /\ resp.route = "score"
              /\ TotalWeight(RespSims, LabelledNeighbours) = 0) =>
        /\ resp.status = 200
        /\ \A t \in Range(TIERS) : resp.probs[t] = resp.probs[TIERS[1]]
        /\ resp.confidence = 0
        /\ LabelledNeighbours = <<>> => resp.coverage = 0

\* the row has an outcome signal
Labelled(r) == index.meta[r].key \in DOMAIN outcome_signals

\* a score request that was answered with a distribution
Scored == Searched /\ resp.route = "score" /\ resp.status = 200

\* C21: coverage is the number of neighbours that added a labelled weight to
\* the totals, whatever label wins, and lies between 0 and the neighbour count.
C21_Coverage ==
    Scored =>
        /\ resp.coverage =
              Cardinality({p \in 1..Min(ScoreSlice, Len(resp.top_idx)) :
                              Labelled(resp.top_idx[p])})
        /\ resp.coverage >= 0
        /\ resp.coverage <= TOP_SCORE

C21_Witness ==
    /\ Scored
    /\ resp.coverage > 0
    /\ resp.coverage < ScoreSlice
    /\ resp.confidence > 0

\* C22: outside the fallback the returned tier has a maximal returned
\* probability, and the returned confidence is that probability.
C22_TierArgMax ==
    (Scored /\ TotalWeight(RespSims, resp.evidence) > 0) =>
        /\ resp.tier \in Range(TIERS)
        /\ \A t \in Range(TIERS) : resp.probs[t] <= resp.probs[resp.tier]
        /\ resp.confidence = resp.probs[resp.tier]

C22_Witness ==
    /\ Scored
    /\ TotalWeight(RespSims, resp.evidence) > 0
    /\ resp.tier = "Escalate"
    /\ \E t \in Range(TIERS) : resp.probs[t] < resp.confidence

\* C25: every one of the TOP_SCORE retrieved neighbours that has a label is
\* in the totals with max(0, similarity); unlabelled neighbours add nothing.
C25_AllNeighboursWeighted ==
    Scored =>
        /\ Len(resp.top_idx) = TOP_SCORE
        /\ resp.evidence = SelectSeq(resp.top_idx, Labelled)

\* C27: requests leave the loaded vectors, keys, metadata and outcome signals
\* as they are, and the answer of score is a function of the query and those
\* tables alone.
C27_QueriesDoNotMutate ==
    /\ [](Searched /\ resp.route = "score" => resp = ScoreResponse(resp.raw))
    /\ [][UNCHANGED <<index, outcome_signals>>]_vars

C27_Witness ==
    /\ Scored
    /\ resp.coverage = ScoreSlice
    /\ resp.tier = "Automate"

\* ---------------------------------------------------------------- pipeline records
\* the vector the service computes from the text of key k, as the cache keeps it
VectorOfText(k) == AsFloat32(Matrix(<<Embedding(KeyToText(tickets)[k])>>, 2)).rows[1]

\* every row of c is the vector of the text of its key
Paired(keys, M) ==
    /\ Len(M.rows) = Len(keys)
    /\ \A n \in DOMAIN keys : M.rows[n] = VectorOfText(keys[n])

\* C28: every record a checkpoint or the reconciliation writes pairs a key
\* with the vector computed from the text of that key.
C28_KeyVectorPairing ==
    /\ Paired(cache.keys, cache.vectors)
    /\ disk.st = "ok" => Paired(disk.keys, disk.vectors)

C28_Witness ==
    /\ pc = "done"
    /\ nckpt >= 1
    /\ Len(missing) > last_ckpt
    /\ disk = FileOf(cache)
    /\ \E n, m \in DOMAIN cache.keys : cache.vectors.rows[n] # cache.vectors.rows[m]

Distinct(s) == \A n, m \in DOMAIN s : s[n] = s[m] => n = m

\* C29: in a run with distinct missing keys a checkpoint comes only after a
\* completed batch, and after it the cache and the file hold the initial
\* records followed by missing[0:last_ckpt] in order, no overlap and no gap.
C29_ContiguousPrefix ==
    (runs > 0 /\ Distinct(missing)) =>
        /\ ckptCache.keys = startCache.keys \o Slice(missing, 0, last_ckpt)
        /\ ckptCache.vectors.rows =
              startCache.vectors.rows \o
                  AsFloat32(Matrix(Slice(vecs, 0, last_ckpt), 2)).rows
        /\ last_ckpt % batch_size = 0 \/ last_ckpt = Len(missing)
        /\ last_ckpt <= Len(vecs)
        /\ (nckpt > 0 /\ disk.st = "ok" /\ pc \in {"embed", "ckpt", "final"}) =>
              disk = FileOf(ckptCache)

C29_Witness ==
    /\ pc = "done"
    /\ nckpt >= 2
    /\ Distinct(missing)
    /\ startCache.keys # <<>>
    /\ last_ckpt = Len(missing)

\* C30: every key in the embedding cache file has a row in the ticket store,
\* because the tickets are upserted and committed before embedding starts.
C30_MetadataPrecedesVectors ==
    /\ PersistedKeys(disk) \subseteq store
    /\ Range(cache.keys) \subseteq store

C30_Witness ==
    /\ pc = "failed"
    /\ runs = MaxRuns
    /\ disk.st = "ok"
    /\ Cardinality(PersistedKeys(disk)) >= 2
    /\ PersistedKeys(disk) # store

\* ---------------------------------------------------------------- index build
MaxIndexed == 2
MaxBuilds == 2

BuildKeys == {"A", "B", "ZOOKEEPER-1"}

\* k.startswith('ZOOKEEPER-')
IsZookeeper(k) == k = "ZOOKEEPER-1"

\* the vector the cache file holds for a key
CachedVector(k) == IF k = "B" THEN <<0, 4>> ELSE <<2, 0>>

\* sklearn normalize(vecs, norm='l2'), one row: a zero row stays zero
NormalizeRow(v) ==
    IF Norm(v) > 0
    THEN <<(v[1] * 5) \div Norm(v), (v[2] * 5) \div Norm(v)>>
    ELSE v

\* np.load of embeddings.npz fails, or all_vecs[mask] raises on a length mismatch
BuildRaises(d) == d.st # "ok" \/ Len(d.vectors.rows) # Len(d.keys)

\* the rows the mask keeps
Mask(d) == {n \in DOMAIN d.keys : ~IsZookeeper(d.keys[n])}

\* a metadata assembly that leaves out the keys tickets.db does not know
MetaKnown(keys, db) ==
    LET known == SelectSeq(keys, LAMBDA k : k \in db)
    IN [n \in DOMAIN known |-> [key |-> known[n], summary |-> "summary"]]

\* for k in keys: m = db_meta.get(k, {}); meta.append({'key': k, ...})
Meta(keys, db) ==
    [n \in DOMAIN keys |->
        [key |-> keys[n], summary |-> IF keys[n] \in db THEN "summary" ELSE ""]]

\* what the script holds in memory before the Save section
Computed(d, db) ==
    LET keys == SubseqAt(d.keys, Mask(d))
        kept == SubseqAt(d.vectors.rows, Mask(d))
    IN [keys |-> keys,
        vecs_norm |-> [n \in DOMAIN kept |-> NormalizeRow(F32(kept[n]))],
        meta |-> Meta(keys, db)]

Written(data) == [st |-> "ok", data |-> data]

\* a file that is open for writing: truncated, not yet complete
Partial == [st |-> "partial", data |-> <<>>]

InitBuild ==
    /\ InitEtl
    /\ tickets = <<>>
    /\ index = NoIndex
    /\ outcome_signals = [k \in {} |-> ""]
    /\ tie_order = "first"
    /\ resp = NoResponse
    /\ files = NoFiles
    /\ build = NoBuild
    /\ boot = "down"
    /\ writers = NoWriters

\* a pipeline run has added key k to the cache file; tickets.db is the one
\* the pipeline wrote (inStore) or another one
PipelineRan(k, inStore) ==
    /\ build.pc \in {"idle", "done", "failed"}
    /\ Len(disk.keys) < MaxIndexed
    /\ disk' = [st |-> "ok", keys |-> Append(disk.keys, k),
                vectors |-> Matrix(Append(disk.vectors.rows, CachedVector(k)), 2)]
    /\ store' = IF inStore THEN store \cup {k} ELSE store
    /\ UNCHANGED <<cache, lastAdd, ops, answer, pc, tickets, batch_size,
                   checkpoint_every, missing, texts, vecs, i, last_ckpt, result, runs,
                   sent, sentRun, startCache, ckptCache, nckpt, prevEnd, prevResult,
                   prevCkpt, hist, serverVars, buildVars, writers>>

\* build_search_index.py up to the Save section
BuildCompute ==
    /\ build.pc \in {"idle", "done", "failed"}
    /\ build.n < MaxBuilds
    /\ build' = IF BuildRaises(disk)
                THEN [build EXCEPT !.pc = "failed", !.n = @ + 1]
                ELSE [pc |-> "computed", n |-> build.n + 1,
                      all_keys |-> disk.keys, db_meta |-> store,
                      keys |-> Computed(disk, store).keys,
                      vecs_norm |-> Computed(disk, store).vecs_norm,
                      meta |-> Computed(disk, store).meta,
                      outputs |-> build.outputs \cup {Computed(disk, store)}]
    /\ UNCHANGED <<files, boot, etlVars, serverVars, writers>>

\* the Save section, one artefact at a time: open(..., 'wb') truncates the
\* file and the write completes it
SaveBegin(at, file, next) ==
    /\ build.pc = at
    /\ files' = [files EXCEPT ![file] = Partial]
    /\ build' = [build EXCEPT !.pc = next]
    /\ UNCHANGED <<boot, etlVars, serverVars, writers>>

SaveEnd(at, file, data, next) ==
    /\ build.pc = at
    /\ files' = [files EXCEPT ![file] = Written(data)]
    /\ build' = [build EXCEPT !.pc = next]
    /\ UNCHANGED <<boot, etlVars, serverVars, writers>>

SaveIndexBegin == SaveBegin("computed", "vecs", "saving_vecs")
SaveIndexEnd == SaveEnd("saving_vecs", "vecs", build.vecs_norm, "saved_vecs")
SaveKeysBegin == SaveBegin("saved_vecs", "keys", "saving_keys")
SaveKeysEnd == SaveEnd("saving_keys", "keys", build.keys, "saved_keys")
SaveMetaBegin == SaveBegin("saved_keys", "meta", "saving_meta")
SaveMetaEnd == SaveEnd("saving_meta", "meta", build.meta, "done")

\* the script is killed somewhere in the Save section
BuildKilled ==
    /\ build.pc \notin {"idle", "done", "failed"}
    /\ build' = [build EXCEPT !.pc = "failed"]
    /\ UNCHANGED <<files, boot, etlVars, serverVars, writers>>

\* server.py module load: np.load / json.load of one artefact; a missing or
\* truncated file raises and the process does not come up
LoadArtefact(at, file, field, next) ==
    /\ boot = at
    /\ IF files[file].st = "ok"
       THEN /\ index' = [index EXCEPT ![field] = files[file].data]
            /\ boot' = next
       ELSE /\ index' = NoIndex
            /\ boot' = "failed"
    /\ UNCHANGED <<files, build, outcome_signals, tie_order, resp, etlVars, writers>>

LoadVecs == LoadArtefact("down", "vecs", "vecs", "loaded_vecs")
LoadKeys == LoadArtefact("loaded_vecs", "keys", "keys", "loaded_keys")
LoadMeta == LoadArtefact("loaded_keys", "meta", "meta", "serving")

\* the serving process is stopped; the next start loads the files again
Restart ==
    /\ boot \in {"serving", "failed"}
    /\ boot' = "down"
    /\ index' = NoIndex
    /\ UNCHANGED <<files, build, outcome_signals, tie_order, resp, etlVars, writers>>

NextBuild ==
    \/ \E k \in BuildKeys, inStore \in BOOLEAN : PipelineRan(k, inStore)
    \/ BuildCompute
    \/ SaveIndexBegin
    \/ SaveIndexEnd
    \/ SaveKeysBegin
    \/ SaveKeysEnd
    \/ SaveMetaBegin
    \/ SaveMetaEnd
    \/ BuildKilled
    \/ LoadVecs
    \/ LoadKeys
    \/ LoadMeta
    \/ Restart

SpecBuild == InitBuild /\ [][NextBuild]_vars

\* the artefacts a completed build has left on disk
Built ==
    [keys |-> files.keys.data, vecs_norm |-> files.vecs.data, meta |-> files.meta.data]

Aligned(o) ==
    /\ Len(o.meta) = Len(o.keys)
    /\ Len(o.vecs_norm) = Len(o.keys)
    /\ \A n \in DOMAIN o.keys : o.meta[n].key = o.keys[n]

\* C26: when a build has completed, the metadata list has exactly one entry
\* per indexed row, in row order, and entry i carries the key of row i; a key
\* that tickets.db does not know is indexed all the same, with empty fields.
C26_BuiltIndexAlignment ==
    build.pc = "done" =>
        /\ Aligned(Built)
        /\ Built.keys = SelectSeq(build.all_keys, LAMBDA k : ~IsZookeeper(k))
        /\ \A n \in DOMAIN Built.keys :
              Built.keys[n] \notin build.db_meta => Built.meta[n].summary = ""

C26_Witness ==
    /\ build.pc = "done"
    /\ Len(Built.keys) = 1
    /\ Built.keys[1] \notin build.db_meta
    /\ Len(build.all_keys) = 2
    /\ build.db_meta # {}

\* C24: a serving process holds the complete output of one build.
C24_RebuildIsSwap ==
    boot = "serving" =>
        \E o \in build.outputs :
            /\ index.vecs = o.vecs_norm
            /\ index.keys = o.keys
            /\ index.meta = o.meta

\* ---------------------------------------------------------------- two writers
MaxWrite == 2

\* the ticket lists an invocation is given: distinct keys, never empty
WriterTickets ==
    {[n \in DOMAIN ks |-> Ticket(ks[n], IF ks[n] = "A" THEN "t1" ELSE "t2")] :
        ks \in {q \in UNION {[1..n -> Keys] : n \in 1..MaxWrite} : Distinct(q)}}

InitWriters ==
    /\ InitEtl
    /\ tickets = <<>>
    /\ index = NoIndex
    /\ outcome_signals = [k \in {} |-> ""]
    /\ tie_order = "first"
    /\ resp = NoResponse
    /\ files = NoFiles
    /\ build = NoBuild
    /\ boot = "down"
    /\ writers = NoWriters

othersVars == <<cache, lastAdd, ops, answer, pipeVars, serverVars, buildVars>>

\* how far the next save of a writer reaches: a checkpoint after `every`
\* embedded texts, or the reconciliation after the loop
FlushTo(wr) == Min(wr.last + wr.every, Len(wr.missing))

\* run_pipeline_from_tickets up to the first embedding call: upsert, load
\* the cache file, compute the missing keys
RunPipeline(w, tk, ce) ==
    /\ writers[w].pc = "idle"
    /\ store' = Upsert(store, tk)
    /\ IF LoadRaises(disk)
       THEN writers' = [writers EXCEPT ![w].pc = "loaderr", ![w].tickets = tk]
       ELSE LET c == Load(disk)
                miss == MissingKeys(c, AllKeys(tk))
            IN writers' = [writers EXCEPT ![w] =
                   [pc |-> IF miss = <<>> THEN "done" ELSE "embed",
                    tickets |-> tk, every |-> ce, cache |-> c,
                    missing |-> miss, last |-> 0, flushed |-> {}]]
    /\ UNCHANGED <<disk, cache, lastAdd, ops, answer, pc, tickets, batch_size,
                   checkpoint_every, missing, texts, vecs, i, last_ckpt, result, runs,
                   sent, sentRun, startCache, ckptCache, nckpt, prevEnd, prevResult,
                   prevCkpt, hist, serverVars, buildVars>>

\* the texts up to the next save are embedded, cache.add, cache.save opens
\* the file
WriterSave(w) ==
    LET wr == writers[w]
        ks == Slice(wr.missing, wr.last, FlushTo(wr))
        c  == Add(wr.cache, ks, Matrix(EmbedCall(TextsOf(wr.tickets, ks)), 2))
    IN /\ wr.pc = "embed"
       /\ writers' = [writers EXCEPT ![w].pc = "saving", ![w].cache = c]
       /\ disk' = PartialFile
       /\ UNCHANGED <<store, othersVars>>

\* np.savez returns: the file is this process's cache, unless another
\* process has the same file open for writing, when it may also be unreadable
WriterSaved(w) ==
    LET wr == writers[w]
        done == FlushTo(wr)
    IN /\ wr.pc = "saving"
       /\ \/ disk' = FileOf(wr.cache)
          \/ /\ \E o \in Writers \ {w} : writers[o].pc = "saving"
             /\ disk' = PartialFile
       /\ writers' = [writers EXCEPT
              ![w].pc = IF done = Len(wr.missing) THEN "done" ELSE "embed",
              ![w].last = done,
              ![w].flushed = @ \cup Range(Slice(wr.missing, wr.last, done))]
       /\ UNCHANGED <<store, othersVars>>

NextWriters ==
    \/ \E w \in Writers, tk \in WriterTickets, ce \in 1..MaxCkpt : RunPipeline(w, tk, ce)
    \/ \E w \in Writers : WriterSave(w)
    \/ \E w \in Writers : WriterSaved(w)

SpecWriters == InitWriters /\ [][NextWriters]_vars

\* C23: when two invocations on the same cache file have both completed, the
\* file holds every record that either of them flushed.
C23_SingleWriter ==
    (\A w \in Writers : writers[w].pc = "done") =>
        \A w \in Writers : writers[w].flushed \subseteq PersistedKeys(disk)

====
